---- MODULE Spec2Model ----
(***************************************************************************)
(* Appointment lifecycle of Hills Clinic: appointments, time slots, the   *)
(* payment sub-machine, slot assignment, the automatic status sweep, the  *)
(* notifications the handlers send and the audit log.                     *)
(* Times are whole hours.                                                  *)
(***************************************************************************)
EXTENDS Integers, Sequences, FiniteSets, TLC

\* ------------------------------------------------------------------ bounds
MaxAppts == 1        \* appointments in the full lifecycle (Spec)
MaxContenders == 2   \* appointments contending for slots (SpecSlots)
MaxSlots == 1
MaxTicks == 2
MaxNotes == 1
MaxRows == 2         \* appointments of an arbitrary table (SpecDeadline)
MaxCalls == 2        \* audit notes one appointment collects (SpecDeadline)
MaxLog == 3          \* rows of the audit log (SpecAudit)

\* ------------------------------------------------------- program constants
NULL == 0
PaymentWindowHours == 48
GraceHours == 1
DefaultMaxBookings == 1
ThrottleSeconds == 300
CacheTimeoutSeconds == 600
JoinEarlyMinutes == 10
JoinLateBufferMinutes == 15
DefaultDurationMinutes == 30

Methods == {"easypaisa"}
ProofRefs == {"proof_a"}
ClockSteps == {PaymentWindowHours}     \* the clock advances by whole payment windows
SlotEnds == {48}                       \* date + end_time of a new slot, in hours
Capacities == {DefaultMaxBookings}     \* max_bookings of a new slot
ReqIds == {1, 2}                       \* concurrent workers
Statuses == {"pending", "confirmed", "completed", "cancelled", "no_show"}
PaymentStatuses == {"pending", "submitted", "verified", "failed", "refunded"}
SinkOutcomes == {"stored", "raises"}   \* Notification.objects.create returns or raises

VARIABLES
    appointments,   \* Appointment table: sequence of rows, id = index
    slots,          \* TimeSlot table: sequence of rows, id = index
    now,            \* timezone.now(), in hours
    ticks,          \* number of clock advances so far
    last,           \* the last request handled, its answer and its notifications
    req,            \* in-flight requests and sweeps (their local objects)
    audit_log,      \* AuditLog table: sequence of rows, pk = index
    cache,          \* the cache entry 'appointment_status_last_update'
    consultations   \* VideoConsultation table: sequence of rows, id = index

vars == <<appointments, slots, now, ticks, last, req, audit_log, cache, consultations>>

AppIds == 1..Len(appointments)
SlotIds == 1..Len(slots)

\* ------------------------------------------------------------------ models
NewAppointment(slot, deadline) ==
    [ status |-> "pending",
      payment_status |-> "pending",
      time_slot |-> slot,
      payment_deadline |-> deadline,
      doctor_notes |-> 0,
      payment_method |-> "",
      payment_proof |-> "",
      payment_confirmed_by |-> "",
      payment_confirmed_at |-> NULL ]

NewTimeSlot(end, cap) ==
    [ end_time |-> end, max_bookings |-> cap, is_available |-> TRUE ]

\* TimeSlot.current_bookings over a given appointment table
current_bookings_in(apps, s) ==
    Cardinality({a \in 1..Len(apps) :
        apps[a].time_slot = s /\ apps[a].status \in {"confirmed", "pending"}})

current_bookings(s) == current_bookings_in(appointments, s)

is_full(s) == current_bookings(s) >= slots[s].max_bookings

\* is_payment_overdue that counts the deadline instant itself as overdue
is_payment_overdue_from_deadline(apt, t) ==
    IF apt.payment_status = "verified" THEN FALSE
    ELSE IF apt.payment_deadline # NULL /\ t >= apt.payment_deadline THEN TRUE
    ELSE FALSE

\* Appointment.is_payment_overdue at clock value t
is_payment_overdue(apt, t) ==
    IF apt.payment_status = "verified" THEN FALSE
    ELSE IF apt.payment_deadline # NULL /\ t > apt.payment_deadline THEN TRUE
    ELSE FALSE

is_past_appointment(apt, t) ==
    IF apt.time_slot = NULL THEN FALSE
    ELSE t > slots[apt.time_slot].end_time + GraceHours

\* the cache key is not set
NoEntry == [last_update |-> NULL, expires |-> NULL]

IdleReq == [pc |-> "idle", aid |-> NULL, sid |-> NULL, apt |-> <<>>, slot |-> <<>>, res |-> ""]

\* the request just handled: operation, appointment, slot named, answer given,
\* and for a sweep its counts and the appointments it notified
Reply(op, a, sid, res, cancelled, completed, notified) ==
    last' = [op |-> op, app |-> a, slot |-> sid, res |-> res,
             unpaid_cancelled |-> cancelled, past_completed |-> completed,
             notified |-> notified]

Answer(op, a, sid, res, cancelled, completed) ==
    Reply(op, a, sid, res, cancelled, completed, {})

\* the answer of a handler that calls a notify_* helper after its save():
\* the helper's exception is not caught, the request ends with a server error
AfterNotify(sink) == IF sink = "raises" THEN "ServerError" ELSE "ok"

Done(op, a, res) == Answer(op, a, NULL, res, 0, 0)

DoneSlot(op, a, sid, res) == Answer(op, a, sid, res, 0, 0)

\* -------------------------------------------------------------------- Init
Init ==
    /\ appointments = <<>>
    /\ slots = <<>>
    /\ now = 1
    /\ ticks = 0
    /\ last = [op |-> "init", app |-> NULL, slot |-> NULL, res |-> "ok",
               unpaid_cancelled |-> 0, past_completed |-> 0, notified |-> {}]
    /\ req = [r \in ReqIds |-> IdleReq]
    /\ audit_log = <<>>
    /\ cache = NoEntry
    /\ consultations = <<>>

\* ------------------------------------------------------------ model methods
\* cancel_if_unpaid without its status check
cancel_if_unpaid_any_status(apt, t) ==
    IF is_payment_overdue(apt, t)
    THEN [apt EXCEPT !.status = "cancelled", !.doctor_notes = @ + 1]
    ELSE apt

\* Appointment.cancel_if_unpaid: the row after the call
cancel_if_unpaid(apt, t) ==
    IF is_payment_overdue(apt, t) /\ apt.status \notin {"cancelled", "completed"}
    THEN [apt EXCEPT !.status = "cancelled", !.doctor_notes = @ + 1]
    ELSE apt

\* complete_if_past without the hour of grace after the slot's end
complete_if_past_without_grace(apt, t) ==
    IF apt.status = "confirmed" /\ apt.time_slot # NULL
          /\ t > slots[apt.time_slot].end_time
    THEN [apt EXCEPT !.status = "completed"]
    ELSE apt

\* Appointment.complete_if_past: the row after the call
complete_if_past(apt, t) ==
    IF apt.status = "confirmed" /\ is_past_appointment(apt, t)
    THEN [apt EXCEPT !.status = "completed"]
    ELSE apt

\* the bulk update's filter without its payment_status condition
OverdueAnyPayment(apt, t) ==
    /\ apt.status \in {"pending", "confirmed"}
    /\ apt.payment_deadline # NULL
    /\ apt.payment_deadline < t

\* the bulk update's filter without its status condition
OverdueUnpaidAnyStatus(apt, t) ==
    /\ apt.payment_deadline # NULL
    /\ apt.payment_deadline < t
    /\ apt.payment_status \in {"pending", "submitted", "failed"}

\* rows matched by the bulk update of auto_update_statuses, step 1
\* (also the queryset of the cancel_unpaid_appointments command)
OverdueUnpaid(apt, t) ==
    /\ apt.status \in {"pending", "confirmed"}
    /\ apt.payment_deadline # NULL
    /\ apt.payment_deadline < t
    /\ apt.payment_status \in {"pending", "submitted", "failed"}

\* rows completed by the loop of auto_update_statuses, step 2
PastConfirmed(apt, t) ==
    /\ apt.status = "confirmed"
    /\ apt.time_slot # NULL
    /\ t > slots[apt.time_slot].end_time + GraceHours

\* a bulk update that reaches the pending rows only
AfterBulkCancelPendingOnly(apps, t) ==
    [a \in 1..Len(apps) |->
        IF OverdueUnpaid(apps[a], t) /\ apps[a].status = "pending"
        THEN [apps[a] EXCEPT !.status = "cancelled"]
        ELSE apps[a]]

\* the table after the bulk update of auto_update_statuses, step 1
AfterBulkCancel(apps, t) ==
    [a \in 1..Len(apps) |->
        IF OverdueUnpaid(apps[a], t) THEN [apps[a] EXCEPT !.status = "cancelled"]
        ELSE apps[a]]

\* a completion loop that stops at the first row whose notification raises
AfterCompletionAborting(apps, t, failing) ==
    [a \in 1..Len(apps) |->
        IF PastConfirmed(apps[a], t)
              /\ ~\E b \in failing : b < a /\ PastConfirmed(apps[b], t)
        THEN [apps[a] EXCEPT !.status = "completed"]
        ELSE apps[a]]

\* the table after the loop of auto_update_statuses, step 2; failing are the
\* rows whose notify_appointment_completed raises (caught, after the save)
AfterCompletion(apps, t, failing) ==
    [a \in 1..Len(apps) |->
        IF PastConfirmed(apps[a], t) THEN [apps[a] EXCEPT !.status = "completed"]
        ELSE apps[a]]

\* Appointment.auto_update_statuses: the table after the sweep, its counts and
\* the appointments whose completion notification was stored
auto_update_statuses(apps, t, failing) ==
    LET cancelled == AfterBulkCancel(apps, t)
        completed == AfterCompletion(cancelled, t, failing)
        due == {a \in 1..Len(apps) : PastConfirmed(cancelled[a], t)}
    IN  [ table |-> completed,
          unpaid_cancelled |-> Cardinality({a \in 1..Len(apps) : OverdueUnpaid(apps[a], t)}),
          past_completed |-> Cardinality(due),
          notified |-> due \ failing ]

\* ---------------------------------------------------------------- creation
\* booking.views: consultation booking form_valid
BookConsultation(sink) ==
    /\ appointments' = Append(appointments, NewAppointment(NULL, now + PaymentWindowHours))
    /\ Done("create_request", Len(appointments) + 1, AfterNotify(sink))
    /\ UNCHANGED <<slots, now, ticks, req, audit_log, cache, consultations>>

\* staff.views.patient_detail, action create_appointment
StaffCreateAppointment ==
    /\ appointments' = Append(appointments, NewAppointment(NULL, NULL))
    /\ Done("staff_create", Len(appointments) + 1, "ok")
    /\ UNCHANGED <<slots, now, ticks, req, audit_log, cache, consultations>>

\* portal.views.AppointmentBookView.post
PortalBook(sid) ==
    /\ IF sid \notin SlotIds \/ ~slots[sid].is_available
       THEN /\ DoneSlot("portal_book", NULL, sid, "InvalidSlot")
            /\ UNCHANGED appointments
       ELSE IF current_bookings(sid) > 0
       THEN /\ DoneSlot("portal_book", NULL, sid, "SlotTaken")
            /\ UNCHANGED appointments
       ELSE /\ appointments' = Append(appointments, NewAppointment(sid, NULL))
            /\ DoneSlot("portal_book", Len(appointments) + 1, sid, "ok")
    /\ UNCHANGED <<slots, now, ticks, req, audit_log, cache, consultations>>

\* ----------------------------------------------------------------- payment
\* the row written by AppointmentPaymentView.post with a valid form
SubmittedRow(apt, m, p) ==
    [apt EXCEPT !.payment_method = m, !.payment_proof = p, !.payment_status = "submitted"]

\* portal.views.AppointmentPaymentView.post
SubmitPaymentProof(a, m, p, valid, sink) ==
    /\ IF valid
       THEN /\ appointments' = [appointments EXCEPT ![a] = SubmittedRow(@, m, p)]
            /\ Done("submit_payment_proof", a, AfterNotify(sink))
       ELSE /\ UNCHANGED appointments
            /\ Done("submit_payment_proof", a, "FormInvalid")
    /\ UNCHANGED <<slots, now, ticks, req, audit_log, cache, consultations>>

\* verify_payment that also confirms the appointment
VerifiedAndConfirmedRow(apt, user, t) ==
    [apt EXCEPT !.payment_status = "verified",
                !.payment_confirmed_by = user,
                !.payment_confirmed_at = t,
                !.status = "confirmed"]

\* the row written by the staff action verify_payment
VerifiedRow(apt, user, t) ==
    [apt EXCEPT !.payment_status = "verified",
                !.payment_confirmed_by = user,
                !.payment_confirmed_at = t]

\* staff.views.appointment_detail, action verify_payment
VerifyPayment(a, sink) ==
    /\ appointments' = [appointments EXCEPT ![a] = VerifiedRow(@, "staff", now)]
    /\ Done("verify_payment", a, AfterNotify(sink))
    /\ UNCHANGED <<slots, now, ticks, req, audit_log, cache, consultations>>

\* the row written by the staff action reject_payment
RejectedRow(apt) == [apt EXCEPT !.payment_status = "failed"]

\* staff.views.appointment_detail, action reject_payment
RejectPayment(a, sink) ==
    /\ appointments' = [appointments EXCEPT ![a] = RejectedRow(@)]
    /\ Done("reject_payment", a, AfterNotify(sink))
    /\ UNCHANGED <<slots, now, ticks, req, audit_log, cache, consultations>>

\* portal.views.StripePaymentView.get: a checkout session was created or not
StripeCheckout(a, created) ==
    /\ IF created
       THEN /\ appointments' = [appointments EXCEPT ![a].payment_method = "stripe"]
            /\ Done("stripe_checkout", a, "ok")
       ELSE /\ UNCHANGED appointments
            /\ Done("stripe_checkout", a, "StripeError")
    /\ UNCHANGED <<slots, now, ticks, req, audit_log, cache, consultations>>

\* the row written by StripeSuccessView.get for a paid session
StripePaidRow(apt, t) ==
    [apt EXCEPT !.payment_status = "verified", !.payment_confirmed_at = t]

\* portal.views.StripeSuccessView.get
StripeSuccess(a, paid) ==
    /\ IF paid
       THEN /\ appointments' = [appointments EXCEPT ![a] = StripePaidRow(@, now)]
            /\ Done("stripe_success", a, "ok")
       ELSE /\ UNCHANGED appointments
            /\ Done("stripe_success", a, "NotPaid")
    /\ UNCHANGED <<slots, now, ticks, req, audit_log, cache, consultations>>

\* ------------------------------------------------- staff appointment_detail
\* action add_notes: the posted text replaces doctor_notes; doctor_notes is
\* modelled by the number of auto-cancel audit lines it holds
AddNotes(a, n) ==
    /\ appointments' = [appointments EXCEPT ![a].doctor_notes = n]
    /\ Done("add_notes", a, "ok")
    /\ UNCHANGED <<slots, now, ticks, req, audit_log, cache, consultations>>

\* the guard of action confirm_with_slot on the appointment
SlotAssignable(apt) == apt.payment_status = "verified"

\* TimeSlot.objects.get(id=slot_id, is_available=True) finds a row
SlotGettable(tbl, sid) == sid \in 1..Len(tbl) /\ tbl[sid].is_available

\* the row written by action confirm_with_slot
ConfirmedRow(apt, sid) == [apt EXCEPT !.time_slot = sid, !.status = "confirmed"]

\* action confirm_with_slot, handled without interruption
ConfirmWithSlot(a, sid, sink) ==
    /\ IF ~SlotAssignable(appointments[a])
       THEN /\ DoneSlot("confirm_with_slot", a, sid, "PaymentNotVerified")
            /\ UNCHANGED <<appointments, slots>>
       ELSE IF sid = NULL
       THEN /\ DoneSlot("confirm_with_slot", a, sid, "NoSlotSelected")
            /\ UNCHANGED <<appointments, slots>>
       ELSE IF ~SlotGettable(slots, sid)
       THEN /\ DoneSlot("confirm_with_slot", a, sid, "SlotNotAvailable")
            /\ UNCHANGED <<appointments, slots>>
       ELSE /\ slots' = [slots EXCEPT ![sid].is_available = FALSE]
            /\ appointments' = [appointments EXCEPT ![a] = ConfirmedRow(@, sid)]
            /\ DoneSlot("confirm_with_slot", a, sid, AfterNotify(sink))
    /\ UNCHANGED <<now, ticks, req, audit_log, cache, consultations>>

\* action confirm
Confirm(a) ==
    /\ appointments' = [appointments EXCEPT ![a].status = "confirmed"]
    /\ Done("confirm", a, "ok")
    /\ UNCHANGED <<slots, now, ticks, req, audit_log, cache, consultations>>

\* action cancel
Cancel(a, sink) ==
    /\ appointments' = [appointments EXCEPT ![a].status = "cancelled"]
    /\ Done("cancel", a, AfterNotify(sink))
    /\ UNCHANGED <<slots, now, ticks, req, audit_log, cache, consultations>>

\* action complete
Complete(a, sink) ==
    /\ appointments' = [appointments EXCEPT ![a].status = "completed"]
    /\ Done("complete", a, AfterNotify(sink))
    /\ UNCHANGED <<slots, now, ticks, req, audit_log, cache, consultations>>

\* the row written by action assign_slot
AssignedRow(apt, sid, t) ==
    [apt EXCEPT !.time_slot = sid, !.payment_deadline = t + PaymentWindowHours]

\* action assign_slot
AssignSlot(a, sid) ==
    /\ IF sid = NULL
       THEN /\ DoneSlot("assign_slot", a, sid, "NoSlotSelected")
            /\ UNCHANGED appointments
       ELSE IF ~SlotGettable(slots, sid)
       THEN /\ DoneSlot("assign_slot", a, sid, "SlotNotAvailable")
            /\ UNCHANGED appointments
       ELSE /\ appointments' = [appointments EXCEPT ![a] = AssignedRow(@, sid, now)]
            /\ DoneSlot("assign_slot", a, sid, "ok")
    /\ UNCHANGED <<slots, now, ticks, req, audit_log, cache, consultations>>

\* ------------------------------------------------ staff time_slot_management
\* action create
CreateSlot(end, cap) ==
    /\ Len(slots) < MaxSlots
    /\ slots' = Append(slots, NewTimeSlot(end, cap))
    /\ Done("slot_create", NULL, "ok")
    /\ UNCHANGED <<appointments, now, ticks, req, audit_log, cache, consultations>>

\* action toggle
ToggleSlot(sid) ==
    /\ slots' = [slots EXCEPT ![sid].is_available = ~@]
    /\ Done("slot_toggle", NULL, "ok")
    /\ UNCHANGED <<appointments, now, ticks, req, audit_log, cache, consultations>>

\* ------------------------------------------------------------ Django admin
\* AppointmentAdmin.mark_confirmed on the selected rows
MarkConfirmed(sel) ==
    /\ appointments' = [a \in AppIds |->
            IF a \in sel THEN [appointments[a] EXCEPT !.status = "confirmed"]
            ELSE appointments[a]]
    /\ Done("admin_mark_confirmed", NULL, "ok")
    /\ UNCHANGED <<slots, now, ticks, req, audit_log, cache, consultations>>

\* AppointmentAdmin.mark_completed on the selected rows
MarkCompleted(sel) ==
    /\ appointments' = [a \in AppIds |->
            IF a \in sel THEN [appointments[a] EXCEPT !.status = "completed"]
            ELSE appointments[a]]
    /\ Done("admin_mark_completed", NULL, "ok")
    /\ UNCHANGED <<slots, now, ticks, req, audit_log, cache, consultations>>

\* ------------------------------------------------------ automatic transitions
\* Appointment.auto_update_statuses, run without interruption
Sweep(failing) ==
    /\ LET r == auto_update_statuses(appointments, now, failing)
       IN /\ appointments' = r.table
          /\ Reply("sweep", NULL, NULL, "ok", r.unpaid_cancelled, r.past_completed,
                   r.notified)
    /\ UNCHANGED <<slots, now, ticks, req, audit_log, cache, consultations>>

\* the row written by the cancel_unpaid_appointments command
CommandCancelledRow(apt) ==
    [apt EXCEPT !.status = "cancelled", !.doctor_notes = @ + 1]

\* the line the command ends with: nothing found, the dry-run warning, or the
\* success message
CommandAnswer(count, dry_run) ==
    IF count = 0 THEN "none_found" ELSE IF dry_run THEN "dry_run" ELSE "cancelled"

\* a command that cancels the overdue rows whether or not --dry-run is given
CancelUnpaidCommandIgnoringDryRun(dry_run) ==
    /\ \A a \in AppIds :
          OverdueUnpaid(appointments[a], now) => appointments[a].doctor_notes < MaxNotes
    /\ appointments' = [a \in AppIds |->
            IF OverdueUnpaid(appointments[a], now)
            THEN CommandCancelledRow(appointments[a])
            ELSE appointments[a]]
    /\ Done("cancel_unpaid_command", NULL,
            CommandAnswer(Cardinality({a \in AppIds : OverdueUnpaid(appointments[a], now)}),
                          dry_run))
    /\ UNCHANGED <<slots, now, ticks, req, audit_log, cache, consultations>>

\* management command cancel_unpaid_appointments
CancelUnpaidCommand(dry_run) ==
    /\ ~dry_run => \A a \in AppIds :
          OverdueUnpaid(appointments[a], now) => appointments[a].doctor_notes < MaxNotes
    /\ appointments' = [a \in AppIds |->
            IF OverdueUnpaid(appointments[a], now) /\ ~dry_run
            THEN CommandCancelledRow(appointments[a])
            ELSE appointments[a]]
    /\ Done("cancel_unpaid_command", NULL,
            CommandAnswer(Cardinality({a \in AppIds : OverdueUnpaid(appointments[a], now)}),
                          dry_run))
    /\ UNCHANGED <<slots, now, ticks, req, audit_log, cache, consultations>>

\* the call leaves doctor_notes with at most n audit notes
NotesWithin(a, n) ==
    cancel_if_unpaid(appointments[a], now) # appointments[a]
       => appointments[a].doctor_notes < n

\* a call of Appointment.is_payment_overdue
IsPaymentOverdue(a) ==
    /\ Done("is_payment_overdue", a,
            IF is_payment_overdue(appointments[a], now) THEN "true" ELSE "false")
    /\ UNCHANGED <<appointments, slots, now, ticks, req, audit_log, cache, consultations>>

\* a call of Appointment.cancel_if_unpaid
CancelIfUnpaid(a) ==
    /\ appointments' = [appointments EXCEPT ![a] = cancel_if_unpaid(@, now)]
    /\ Done("cancel_if_unpaid", a,
            IF cancel_if_unpaid(appointments[a], now) # appointments[a] THEN "true" ELSE "false")
    /\ UNCHANGED <<slots, now, ticks, req, audit_log, cache, consultations>>

\* a call of Appointment.complete_if_past
CompleteIfPast(a) ==
    /\ appointments' = [appointments EXCEPT ![a] = complete_if_past(@, now)]
    /\ Done("complete_if_past", a,
            IF complete_if_past(appointments[a], now) # appointments[a] THEN "true" ELSE "false")
    /\ UNCHANGED <<slots, now, ticks, req, audit_log, cache, consultations>>

\* ------------------------------------------------------------------- clock
Tick ==
    /\ ticks < MaxTicks
    /\ \E d \in ClockSteps : now' = now + d
    /\ ticks' = ticks + 1
    /\ Done("tick", NULL, "ok")
    /\ UNCHANGED <<appointments, slots, req, audit_log, cache, consultations>>

Next ==
    \/ Tick
    \/ \E sink \in SinkOutcomes : Len(appointments) < MaxAppts /\ BookConsultation(sink)
    \/ Len(appointments) < MaxAppts /\ StaffCreateAppointment
    \/ \E sid \in 0..MaxSlots : Len(appointments) < MaxAppts /\ PortalBook(sid)
    \/ \E a \in AppIds, m \in Methods, p \in ProofRefs, valid \in BOOLEAN,
          sink \in SinkOutcomes : SubmitPaymentProof(a, m, p, valid, sink)
    \/ \E a \in AppIds, sink \in SinkOutcomes : VerifyPayment(a, sink)
    \/ \E a \in AppIds, sink \in SinkOutcomes : RejectPayment(a, sink)
    \/ \E a \in AppIds, created \in BOOLEAN : StripeCheckout(a, created)
    \/ \E a \in AppIds, paid \in BOOLEAN : StripeSuccess(a, paid)
    \/ \E a \in AppIds, n \in 0..MaxNotes : AddNotes(a, n)
    \/ \E a \in AppIds, sid \in 0..MaxSlots, sink \in SinkOutcomes :
          ConfirmWithSlot(a, sid, sink)
    \/ \E a \in AppIds : Confirm(a)
    \/ \E a \in AppIds, sink \in SinkOutcomes : Cancel(a, sink)
    \/ \E a \in AppIds, sink \in SinkOutcomes : Complete(a, sink)
    \/ \E a \in AppIds, sid \in 0..MaxSlots : AssignSlot(a, sid)
    \/ \E end \in SlotEnds, cap \in Capacities : CreateSlot(end, cap)
    \/ \E sid \in SlotIds : ToggleSlot(sid)
    \/ \E sel \in SUBSET AppIds : sel # {} /\ MarkConfirmed(sel)
    \/ \E sel \in SUBSET AppIds : sel # {} /\ MarkCompleted(sel)
    \/ \E failing \in SUBSET AppIds : Sweep(failing)
    \/ \E dry_run \in BOOLEAN : CancelUnpaidCommand(dry_run)
    \/ \E a \in AppIds : NotesWithin(a, MaxNotes) /\ CancelIfUnpaid(a)
    \/ \E a \in AppIds : CompleteIfPast(a)

Spec == Init /\ [][Next]_vars

\* ------------------------------------------------- slot contention (SpecSlots)
\* The operations that create, fill and free slots, over several appointments.
NextSlots ==
    \/ Tick
    \/ Len(appointments) < MaxContenders /\ StaffCreateAppointment
    \/ \E sid \in 0..MaxSlots : Len(appointments) < MaxContenders /\ PortalBook(sid)
    \/ \E end \in SlotEnds, cap \in Capacities : CreateSlot(end, cap)
    \/ \E sid \in SlotIds : ToggleSlot(sid)
    \/ \E a \in AppIds, sink \in SinkOutcomes : VerifyPayment(a, sink)
    \/ \E a \in AppIds, sid \in 0..MaxSlots, sink \in SinkOutcomes :
          ConfirmWithSlot(a, sid, sink)
    \/ \E a \in AppIds, sid \in 0..MaxSlots : AssignSlot(a, sid)
    \/ \E a \in AppIds, sink \in SinkOutcomes : Cancel(a, sink)
    \/ \E failing \in SUBSET AppIds : Sweep(failing)

SpecSlots == Init /\ [][NextSlots]_vars

\* ------------------------------------- concurrent confirm_with_slot (SpecRace)
\* Two workers handle action confirm_with_slot; every query and every save()
\* is a step of its own (no transaction spans the handler).

\* a booked consultation whose proof was submitted and, if v, verified by staff
AwaitingSlot(v) ==
    LET submitted == SubmittedRow(NewAppointment(NULL, 1 + PaymentWindowHours),
                                  "easypaisa", "proof_a")
    IN  IF v THEN VerifiedRow(submitted, "staff", 1) ELSE submitted

\* two appointments awaiting a slot and one free slot
InitRace ==
    /\ \E v1, v2 \in BOOLEAN :
          appointments = << AwaitingSlot(v1), AwaitingSlot(v2) >>
    /\ \E cap \in {DefaultMaxBookings, DefaultMaxBookings + 1} :
          slots = << NewTimeSlot(PaymentWindowHours, cap) >>
    /\ now = 1
    /\ ticks = 0
    /\ last = [op |-> "init", app |-> NULL, slot |-> NULL, res |-> "ok",
               unpaid_cancelled |-> 0, past_completed |-> 0, notified |-> {}]
    /\ req = [r \in ReqIds |-> IdleReq]
    /\ audit_log = <<>>
    /\ cache = NoEntry
    /\ consultations = <<>>

\* get_object_or_404(Appointment, id): the request's own copy of the row
ReqLoad(r, a, sid) ==
    /\ req[r].pc = "idle"
    /\ req' = [req EXCEPT ![r] = [@ EXCEPT !.pc = "loaded", !.aid = a, !.sid = sid,
                                           !.apt = <<appointments[a]>>]]
    /\ UNCHANGED <<appointments, slots, now, ticks, last, audit_log, cache, consultations>>

\* the payment check and TimeSlot.objects.get(id, is_available=True)
ReqGetSlot(r) ==
    /\ req[r].pc = "loaded"
    /\ req' = [req EXCEPT ![r] =
          IF ~SlotAssignable(req[r].apt[1])
          THEN [@ EXCEPT !.pc = "done", !.res = "PaymentNotVerified"]
          ELSE IF req[r].sid = NULL
          THEN [@ EXCEPT !.pc = "done", !.res = "NoSlotSelected"]
          ELSE IF ~SlotGettable(slots, req[r].sid)
          THEN [@ EXCEPT !.pc = "done", !.res = "SlotNotAvailable"]
          ELSE [@ EXCEPT !.pc = "got_slot", !.slot = <<slots[req[r].sid]>>]]
    /\ UNCHANGED <<appointments, slots, now, ticks, last, audit_log, cache, consultations>>

\* slot.is_available = False; slot.save()
ReqSaveSlot(r) ==
    /\ req[r].pc = "got_slot"
    /\ slots' = [slots EXCEPT ![req[r].sid] = [req[r].slot[1] EXCEPT !.is_available = FALSE]]
    /\ req' = [req EXCEPT ![r].pc = "slot_saved"]
    /\ UNCHANGED <<appointments, now, ticks, last, audit_log, cache, consultations>>

\* appointment.save(): every column from the request's copy; then the
\* confirmation notification
ReqSaveAppointment(r, sink) ==
    /\ req[r].pc = "slot_saved"
    /\ appointments' = [appointments EXCEPT ![req[r].aid] = ConfirmedRow(req[r].apt[1], req[r].sid)]
    /\ req' = [req EXCEPT ![r] = [@ EXCEPT !.pc = "done", !.res = AfterNotify(sink)]]
    /\ UNCHANGED <<slots, now, ticks, last, audit_log, cache, consultations>>

NextRace ==
    \/ \E r \in ReqIds, a \in AppIds, sid \in 0..MaxSlots : ReqLoad(r, a, sid)
    \/ \E r \in ReqIds : ReqGetSlot(r)
    \/ \E r \in ReqIds : ReqSaveSlot(r)
    \/ \E r \in ReqIds, sink \in SinkOutcomes : ReqSaveAppointment(r, sink)

SpecRace == InitRace /\ [][NextRace]_vars

\* ------------------------------------ deadline enforcement (SpecDeadline)
\* The deadline methods of Appointment over an arbitrary appointment table.

\* a row with the given payment_status, built as the handlers build it
PaidAs(apt, p) ==
    CASE p = "pending" -> apt
      [] p = "submitted" -> SubmittedRow(apt, "easypaisa", "proof_a")
      [] p = "verified" -> VerifiedRow(SubmittedRow(apt, "easypaisa", "proof_a"), "staff", 1)
      [] p = "failed" -> RejectedRow(SubmittedRow(apt, "easypaisa", "proof_a"))
      [] OTHER -> [apt EXCEPT !.payment_status = p]

Deadlines == {NULL, 1, 1 + PaymentWindowHours}

\* every row of the Appointment table over the field choices
AnyRows ==
    { [PaidAs(NewAppointment(sid, d), p) EXCEPT !.status = s] :
        s \in Statuses, p \in PaymentStatuses, d \in Deadlines, sid \in {NULL, 1} }

InitDeadline ==
    /\ \E n \in 1..MaxRows : appointments \in [1..n -> AnyRows]
    /\ slots = << NewTimeSlot(PaymentWindowHours, DefaultMaxBookings) >>
    /\ now = 1
    /\ ticks = 0
    /\ last = [op |-> "init", app |-> NULL, slot |-> NULL, res |-> "ok",
               unpaid_cancelled |-> 0, past_completed |-> 0, notified |-> {}]
    /\ req = [r \in ReqIds |-> IdleReq]
    /\ audit_log = <<>>
    /\ cache = NoEntry
    /\ consultations = <<>>

NextDeadline ==
    \/ Tick
    \/ \E a \in AppIds : IsPaymentOverdue(a)
    \/ \E a \in AppIds : NotesWithin(a, MaxCalls) /\ CancelIfUnpaid(a)
    \/ \E failing \in SUBSET AppIds : Sweep(failing)

SpecDeadline == InitDeadline /\ [][NextDeadline]_vars

\* ------------------------------------------- completion by time (SpecPast)
\* complete_if_past on any row, for slots that end before, at and after the
\* instants the clock takes.

PastEnds == {PaymentWindowHours - 1, PaymentWindowHours, PaymentWindowHours + 1}

InitPast ==
    /\ appointments \in [1..1 -> AnyRows]
    /\ \E end \in PastEnds : slots = << NewTimeSlot(end, DefaultMaxBookings) >>
    /\ now = 1
    /\ ticks = 0
    /\ last = [op |-> "init", app |-> NULL, slot |-> NULL, res |-> "ok",
               unpaid_cancelled |-> 0, past_completed |-> 0, notified |-> {}]
    /\ req = [r \in ReqIds |-> IdleReq]
    /\ audit_log = <<>>
    /\ cache = NoEntry
    /\ consultations = <<>>

NextPast ==
    \/ Tick
    \/ \E a \in AppIds : CompleteIfPast(a)

SpecPast == InitPast /\ [][NextPast]_vars

\* --------------------------------------------- concurrent sweeps (SpecSweeps)
\* Two workers run auto_update_statuses; the bulk update, the evaluation of
\* the queryset and every pass of the loop are steps of their own.

IdleSweep == [pc |-> "idle", t |-> NULL, rows |-> <<>>,
              unpaid_cancelled |-> 0, past_completed |-> 0, notified |-> {}]

\* the confirmed rows with a slot, in the order of their ids, as the queryset
\* of step 2 loads them
ConfirmedWithSlot(apps) ==
    LET F[n \in 0..Len(apps)] ==
          IF n = 0 THEN <<>>
          ELSE IF apps[n].status = "confirmed" /\ apps[n].time_slot # NULL
               THEN Append(F[n - 1], [id |-> n, apt |-> apps[n]])
               ELSE F[n - 1]
    IN  F[Len(apps)]

\* the rows a sweep may meet: pending or confirmed, paid or not, with or
\* without deadline and slot
SweepableRows ==
    { [PaidAs(NewAppointment(sid, d), p) EXCEPT !.status = st] :
        st \in {"pending", "confirmed"}, p \in {"pending", "verified"},
        d \in {NULL, 1}, sid \in {NULL, 1} }

InitSweeps ==
    /\ \E n \in 1..MaxRows : appointments \in [1..n -> SweepableRows]
    /\ slots = << NewTimeSlot(PaymentWindowHours, DefaultMaxBookings) >>
    /\ now \in {1, 1 + 2 * PaymentWindowHours}
    /\ ticks = 0
    /\ last = [op |-> "init", app |-> NULL, slot |-> NULL, res |-> "ok",
               unpaid_cancelled |-> 0, past_completed |-> 0, notified |-> {}]
    /\ req = [w \in ReqIds |-> IdleSweep]
    /\ audit_log = <<>>
    /\ cache = NoEntry
    /\ consultations = <<>>

\* now = timezone.now() and step 1, the bulk update
SweepBulkCancel(w) ==
    /\ req[w].pc = "idle"
    /\ appointments' = AfterBulkCancel(appointments, now)
    /\ req' = [req EXCEPT ![w] = [@ EXCEPT
          !.pc = "cancelled", !.t = now,
          !.unpaid_cancelled = Cardinality({a \in AppIds : OverdueUnpaid(appointments[a], now)})]]
    /\ UNCHANGED <<slots, now, ticks, last, audit_log, cache, consultations>>

\* step 2: the for loop evaluates the queryset
SweepSelect(w) ==
    /\ req[w].pc = "cancelled"
    /\ req' = [req EXCEPT ![w] = [@ EXCEPT !.pc = "looping",
                                           !.rows = ConfirmedWithSlot(appointments)]]
    /\ UNCHANGED <<appointments, slots, now, ticks, last, audit_log, cache, consultations>>

\* one pass of the loop: save(update_fields=['status']) and the notification
SweepRow(w, sink) ==
    /\ req[w].pc = "looping"
    /\ req[w].rows # <<>>
    /\ LET row == Head(req[w].rows)
       IN  IF req[w].t > slots[row.apt.time_slot].end_time + GraceHours
           THEN /\ appointments' = [appointments EXCEPT ![row.id].status = "completed"]
                /\ req' = [req EXCEPT ![w] = [@ EXCEPT
                      !.rows = Tail(@),
                      !.past_completed = @ + 1,
                      !.notified = IF sink = "raises" THEN @ ELSE @ \cup {row.id}]]
           ELSE /\ req' = [req EXCEPT ![w].rows = Tail(@)]
                /\ UNCHANGED appointments
    /\ UNCHANGED <<slots, now, ticks, last, audit_log, cache, consultations>>

\* the loop is over: return the counts
SweepReturn(w) ==
    /\ req[w].pc = "looping"
    /\ req[w].rows = <<>>
    /\ req' = [req EXCEPT ![w].pc = "done"]
    /\ Reply("sweep", NULL, NULL, "ok", req[w].unpaid_cancelled, req[w].past_completed,
             req[w].notified)
    /\ UNCHANGED <<appointments, slots, now, ticks, audit_log, cache, consultations>>

NextSweeps ==
    \/ \E w \in ReqIds : SweepBulkCancel(w)
    \/ \E w \in ReqIds : SweepSelect(w)
    \/ \E w \in ReqIds, sink \in SinkOutcomes : SweepRow(w, sink)
    \/ \E w \in ReqIds : SweepReturn(w)

SpecSweeps == InitSweeps /\ [][NextSweeps]_vars

\* ------------------------------- sweep against staff cancel (SpecSweepCancel)
\* The step-wise sweeps of SpecSweeps, with staff members cancelling
\* appointments between the steps.

NextSweepCancel ==
    \/ NextSweeps
    \/ \E a \in AppIds, sink \in SinkOutcomes : Cancel(a, sink)

SpecSweepCancel == InitSweeps /\ [][NextSweepCancel]_vars

\* ------------------------------------- concurrent self-booking (SpecBooking)
\* AppointmentBookView.post in two workers: the slot lookup, the test for an
\* existing booking and the create are statements of their own.

IdleBooking == [pc |-> "idle", sid |-> NULL]

\* TimeSlot.objects.get(pk=time_slot_id, is_available=True)
BookingGetSlot(w, sid) ==
    /\ req[w].pc = "idle"
    /\ IF SlotGettable(slots, sid)
       THEN /\ req' = [req EXCEPT ![w] = [pc |-> "got", sid |-> sid]]
            /\ UNCHANGED last
       ELSE /\ req' = [req EXCEPT ![w] = [pc |-> "done", sid |-> sid]]
            /\ DoneSlot("portal_book", NULL, sid, "InvalidSlot")
    /\ UNCHANGED <<appointments, slots, now, ticks, audit_log, cache, consultations>>

\* existing = Appointment.objects.filter(...).exists() and the early return
BookingCheckExisting(w) ==
    /\ req[w].pc = "got"
    /\ IF current_bookings(req[w].sid) > 0
       THEN /\ req' = [req EXCEPT ![w].pc = "done"]
            /\ DoneSlot("portal_book", NULL, req[w].sid, "SlotTaken")
       ELSE /\ req' = [req EXCEPT ![w].pc = "checked"]
            /\ UNCHANGED last
    /\ UNCHANGED <<appointments, slots, now, ticks, audit_log, cache, consultations>>

\* Appointment.objects.create(..., time_slot=time_slot, status='pending')
BookingCreate(w) ==
    /\ req[w].pc = "checked"
    /\ appointments' = Append(appointments, NewAppointment(req[w].sid, NULL))
    /\ req' = [req EXCEPT ![w].pc = "done"]
    /\ DoneSlot("portal_book", Len(appointments) + 1, req[w].sid, "ok")
    /\ UNCHANGED <<slots, now, ticks, audit_log, cache, consultations>>

InitBooking ==
    /\ appointments = <<>>
    /\ slots = <<>>
    /\ now = 1
    /\ ticks = 0
    /\ last = [op |-> "init", app |-> NULL, slot |-> NULL, res |-> "ok",
               unpaid_cancelled |-> 0, past_completed |-> 0, notified |-> {}]
    /\ req = [w \in ReqIds |-> IdleBooking]
    /\ audit_log = <<>>
    /\ cache = NoEntry
    /\ consultations = <<>>

NextBooking ==
    \/ \E end \in SlotEnds, cap \in Capacities : CreateSlot(end, cap)
    \/ \E sid \in SlotIds : ToggleSlot(sid)
    \/ \E w \in ReqIds, sid \in 0..MaxSlots : BookingGetSlot(w, sid)
    \/ \E w \in ReqIds : BookingCheckExisting(w)
    \/ \E w \in ReqIds : BookingCreate(w)
    \/ \E a \in AppIds, sink \in SinkOutcomes : Cancel(a, sink)

SpecBooking == InitBooking /\ [][NextBooking]_vars

\* ------------------------------------------- video consultations (SpecJoin)
\* VideoConsultation rows, the can_join property and the join view. In this
\* specification the clock counts minutes.

ConsIds == 1..Len(consultations)

VideoStatuses ==
    {"pending_payment", "scheduled", "in_progress", "completed", "cancelled", "no_show"}

\* the minute a consultation is scheduled for
ScheduledAt == 2 * DefaultDurationMinutes

Durations == {JoinLateBufferMinutes, DefaultDurationMinutes}

VideoRows ==
    [status : VideoStatuses, scheduled : {ScheduledAt}, duration_minutes : Durations,
     room_id : {"", "HillsClinic-room"}]

\* VideoConsultation.can_join
can_join(c, t) ==
    IF c.status \notin {"scheduled", "in_progress"} THEN FALSE
    ELSE LET earliest_join == c.scheduled - JoinEarlyMinutes
             latest_join == c.scheduled + (c.duration_minutes + JoinLateBufferMinutes)
         IN  earliest_join <= t /\ t <= latest_join

\* the instants just before the edges of the windows
JoinInstants ==
    {ScheduledAt - JoinEarlyMinutes - 1}
    \cup {ScheduledAt + d - 1 : d \in Durations}
    \cup {ScheduledAt + d + JoinLateBufferMinutes - 1 : d \in Durations}

InitJoin ==
    /\ appointments = <<>>
    /\ slots = <<>>
    /\ now \in JoinInstants
    /\ ticks = 0
    /\ last = [op |-> "init", app |-> NULL, slot |-> NULL, res |-> "ok",
               unpaid_cancelled |-> 0, past_completed |-> 0, notified |-> {}]
    /\ req = [r \in ReqIds |-> IdleReq]
    /\ audit_log = <<>>
    /\ cache = NoEntry
    /\ consultations \in [1..1 -> VideoRows]

\* a minute passes
TickMinute ==
    /\ ticks < MaxTicks
    /\ now' = now + 1
    /\ ticks' = ticks + 1
    /\ Done("tick", NULL, "ok")
    /\ UNCHANGED <<appointments, slots, req, audit_log, cache, consultations>>

\* a read of the can_join property
CanJoin(c) ==
    /\ Done("can_join", c, IF can_join(consultations[c], now) THEN "true" ELSE "false")
    /\ UNCHANGED <<appointments, slots, now, ticks, req, audit_log, cache, consultations>>

\* VideoConsultationJoinView.get; generate_meeting_room reads
\* consultation.patient, which the model does not have
VideoJoin(c) ==
    /\ Done("video_join", c,
            IF ~can_join(consultations[c], now) THEN "NotActive"
            ELSE IF consultations[c].room_id = "" THEN "ServerError"
            ELSE "joined")
    /\ UNCHANGED <<appointments, slots, now, ticks, req, audit_log, cache, consultations>>

\* VideoConsultationAdmin.mark_completed on the selected rows
VideoMarkCompleted(sel) ==
    /\ consultations' = [c \in ConsIds |->
            IF c \in sel THEN [consultations[c] EXCEPT !.status = "completed"]
            ELSE consultations[c]]
    /\ Done("video_mark_completed", NULL, "ok")
    /\ UNCHANGED <<appointments, slots, now, ticks, req, audit_log, cache>>

NextJoin ==
    \/ TickMinute
    \/ \E c \in ConsIds : CanJoin(c)
    \/ \E c \in ConsIds : VideoJoin(c)
    \/ \E sel \in SUBSET ConsIds : sel # {} /\ VideoMarkCompleted(sel)

SpecJoin == InitJoin /\ [][NextJoin]_vars

\* ---------------------------------------------- slot deletion (SpecSlotDelete)
\* time_slot_management with action delete. Ids are indices, so a deleted row
\* keeps its place in the table and holds no data.

DeletedSlot == [end_time |-> NULL, max_bookings |-> 0, is_available |-> FALSE]

DeletedAppointment == [NewAppointment(NULL, NULL) EXCEPT !.status = "deleted"]

\* get_object_or_404(TimeSlot, id=slot_id) finds the row
SlotExists(sid) == sid \in SlotIds /\ slots[sid] # DeletedSlot

AppointmentExists(a) == a \in AppIds /\ appointments[a] # DeletedAppointment

\* slot.delete(): the row goes, and with it (on_delete=CASCADE) every
\* appointment that references it
AfterSlotDelete(apps, sid) ==
    [a \in 1..Len(apps) |->
        IF apps[a].time_slot = sid THEN DeletedAppointment ELSE apps[a]]

\* action delete without the test of current_bookings
DeleteSlotUnchecked(sid) ==
    /\ IF ~SlotExists(sid)
       THEN /\ DoneSlot("slot_delete", NULL, sid, "NotFound")
            /\ UNCHANGED <<appointments, slots>>
       ELSE /\ slots' = [slots EXCEPT ![sid] = DeletedSlot]
            /\ appointments' = AfterSlotDelete(appointments, sid)
            /\ DoneSlot("slot_delete", NULL, sid, "ok")
    /\ UNCHANGED <<now, ticks, req, audit_log, cache, consultations>>

\* action delete
DeleteSlot(sid) ==
    /\ IF ~SlotExists(sid)
       THEN /\ DoneSlot("slot_delete", NULL, sid, "NotFound")
            /\ UNCHANGED <<appointments, slots>>
       ELSE IF current_bookings(sid) = 0
       THEN /\ slots' = [slots EXCEPT ![sid] = DeletedSlot]
            /\ appointments' = AfterSlotDelete(appointments, sid)
            /\ DoneSlot("slot_delete", NULL, sid, "ok")
       ELSE /\ DoneSlot("slot_delete", NULL, sid, "HasBookings")
            /\ UNCHANGED <<appointments, slots>>
    /\ UNCHANGED <<now, ticks, req, audit_log, cache, consultations>>

NextSlotDelete ==
    \/ \E end \in SlotEnds, cap \in Capacities : CreateSlot(end, cap)
    \/ \E sid \in SlotIds : SlotExists(sid) /\ ToggleSlot(sid)
    \/ \E sid \in 0..MaxSlots : Len(appointments) < MaxContenders /\ PortalBook(sid)
    \/ \E a \in AppIds, sink \in SinkOutcomes : AppointmentExists(a) /\ Cancel(a, sink)
    \/ \E a \in AppIds, sink \in SinkOutcomes : AppointmentExists(a) /\ Complete(a, sink)
    \/ \E sid \in 0..MaxSlots : DeleteSlot(sid)

SpecSlotDelete == Init /\ [][NextSlotDelete]_vars

\* ------------------------------------------------------ audit log (SpecAudit)
\* Rows of AuditLog are written by log_action; save() refuses a stored row.
\* The portal handlers that call log_action (booking, proof upload, Stripe
\* success) add one row each; nothing reads the rows back, and they are
\* followed here, apart from the appointment tables.

AuditActions == {"create", "update", "view"}

\* the rows an audit entry about an appointment can be
AuditRows ==
    [ action : AuditActions, resource_type : {"Appointment"},
      resource_id : 1..MaxContenders, is_suspicious : BOOLEAN ]

\* a save() that writes whether or not the row is already stored
AuditLogSaveUnguarded(tbl, pk, row) ==
    IF pk # NULL
    THEN [table |-> [tbl EXCEPT ![pk] = row], res |-> "ok"]
    ELSE [table |-> Append(tbl, row), res |-> "ok"]

\* AuditLog.save of an instance with primary key pk (NULL: not yet stored)
\* and field values row: the table after the call and the outcome
AuditLogSave(tbl, pk, row) ==
    IF pk # NULL
    THEN [table |-> tbl, res |-> "ValueError"]
    ELSE [table |-> Append(tbl, row), res |-> "ok"]

\* portal.views.log_action: AuditLog.objects.create saves a new instance
LogAction(action, rid) ==
    /\ Len(audit_log) < MaxLog
    /\ LET r == AuditLogSave(audit_log, NULL,
                    [action |-> action, resource_type |-> "Appointment",
                     resource_id |-> rid, is_suspicious |-> FALSE])
       IN  /\ audit_log' = r.table
           /\ Done("log_action", Len(audit_log) + 1, r.res)
    /\ UNCHANGED <<appointments, slots, now, ticks, req, cache, consultations>>

\* a stored row is loaded, its fields are set to row, save() is called
AuditResave(pk, row) ==
    /\ LET r == AuditLogSave(audit_log, pk, row)
       IN  /\ audit_log' = r.table
           /\ Done("audit_save", pk, r.res)
    /\ UNCHANGED <<appointments, slots, now, ticks, req, cache, consultations>>

NextAudit ==
    \/ \E action \in AuditActions, rid \in 1..MaxContenders : LogAction(action, rid)
    \/ \E pk \in 1..Len(audit_log), row \in AuditRows : AuditResave(pk, row)

SpecAudit == Init /\ [][NextAudit]_vars

\* ------------------------------------------ request throttle (SpecThrottle)
\* AppointmentStatusMiddleware in two workers that share the cache. In this
\* specification the clock counts seconds; the appointment tables are empty.

ThrottleSteps == {1, ThrottleSeconds, ThrottleSeconds + 1}

IdleMiddleware == [pc |-> "idle", t |-> NULL, last_update |-> NULL, ran |-> FALSE]

\* cache.get(cache_key) at clock value t
cache_get(c, t) ==
    IF c.last_update # NULL /\ t < c.expires THEN c.last_update ELSE NULL

\* the throttle's condition on the marker read and the request's clock value
UpdateNeeded(last_update, t) ==
    last_update = NULL \/ t - last_update > ThrottleSeconds

InitThrottle ==
    /\ appointments = <<>>
    /\ slots = <<>>
    /\ now = 1
    /\ ticks = 0
    /\ last = [op |-> "init", app |-> NULL, slot |-> NULL, res |-> "ok",
               unpaid_cancelled |-> 0, past_completed |-> 0, notified |-> {}]
    /\ req = [w \in ReqIds |-> IdleMiddleware]
    /\ audit_log = <<>>
    /\ cache = NoEntry
    /\ consultations = <<>>

\* time passes between the steps of the requests
TickSeconds ==
    /\ ticks < MaxTicks
    /\ \E d \in ThrottleSteps : now' = now + d
    /\ ticks' = ticks + 1
    /\ UNCHANGED <<appointments, slots, last, req, audit_log, cache, consultations>>

\* __call__: the path test; then cache.get and now = timezone.now()
MiddlewareEnter(w, relevant) ==
    /\ req[w].pc = "idle"
    /\ req' = [req EXCEPT ![w] =
          IF relevant
          THEN [@ EXCEPT !.pc = "read", !.t = now, !.last_update = cache_get(cache, now)]
          ELSE [@ EXCEPT !.pc = "done"]]
    /\ UNCHANGED <<appointments, slots, now, ticks, last, audit_log, cache, consultations>>

\* the condition; if it holds, Appointment.auto_update_statuses()
MiddlewareSweep(w, failing) ==
    /\ req[w].pc = "read"
    /\ IF UpdateNeeded(req[w].last_update, req[w].t)
       THEN LET r == auto_update_statuses(appointments, now, failing)
            IN  /\ appointments' = r.table
                /\ Reply("sweep", NULL, NULL, "ok", r.unpaid_cancelled,
                         r.past_completed, r.notified)
                /\ req' = [req EXCEPT ![w] = [@ EXCEPT !.pc = "swept", !.ran = TRUE]]
       ELSE /\ req' = [req EXCEPT ![w].pc = "done"]
            /\ UNCHANGED <<appointments, last>>
    /\ UNCHANGED <<slots, now, ticks, audit_log, cache, consultations>>

\* cache.set(cache_key, now, timeout=600)
MiddlewareSet(w) ==
    /\ req[w].pc = "swept"
    /\ cache' = [last_update |-> req[w].t, expires |-> now + CacheTimeoutSeconds]
    /\ req' = [req EXCEPT ![w].pc = "done"]
    /\ UNCHANGED <<appointments, slots, now, ticks, last, audit_log, consultations>>

NextThrottle ==
    \/ TickSeconds
    \/ \E w \in ReqIds, relevant \in BOOLEAN : MiddlewareEnter(w, relevant)
    \/ \E w \in ReqIds, failing \in SUBSET AppIds : MiddlewareSweep(w, failing)
    \/ \E w \in ReqIds : MiddlewareSet(w)

SpecThrottle == InitThrottle /\ [][NextThrottle]_vars

\* ================================================================== claims
Terminal == {"cancelled", "completed"}
AutoOps == {"sweep", "cancel_if_unpaid", "complete_if_past", "cancel_unpaid_command"}
DeadlineOps == {"sweep", "cancel_if_unpaid", "cancel_unpaid_command"}

\* C1: for every slot, the number of pending or confirmed appointments that
\* reference it never exceeds the slot's max_bookings.
C1_NoOverbooking ==
    \A s \in SlotIds : current_bookings(s) <= slots[s].max_bookings

\* C2: two concurrent confirm_with_slot calls for two different verified
\* appointments on one slot of capacity 1: when both have answered, exactly one
\* succeeded and the other was refused because the slot is taken.
C2_ExactlyOneAssignSucceeds ==
    ( /\ \A r \in ReqIds : req[r].pc = "done"
      /\ req[1].aid # req[2].aid
      /\ req[1].sid = req[2].sid
      /\ req[1].sid # NULL
      /\ slots[req[1].sid].max_bookings = 1
      /\ \A r \in ReqIds : req[r].apt[1].payment_status = "verified" )
    => \E r \in ReqIds : \E q \in ReqIds \ {r} :
          req[r].res = "ok" /\ req[q].res = "SlotNotAvailable"

\* C3: assigning an available slot (confirm_with_slot or assign_slot) to an
\* appointment whose payment is not verified answers PaymentNotVerified and
\* leaves the appointment's status and time_slot and the slots unchanged.
C3_UnverifiedAssignRefused ==
    [][\A a \in AppIds :
          ( /\ last'.op \in {"confirm_with_slot", "assign_slot"}
            /\ last'.app = a
            /\ SlotGettable(slots, last'.slot)
            /\ appointments[a].payment_status # "verified" )
          => ( /\ last'.res = "PaymentNotVerified"
               /\ appointments'[a].status = appointments[a].status
               /\ appointments'[a].time_slot = appointments[a].time_slot
               /\ slots' = slots )]_vars

\* C4: an appointment's status becomes confirmed only by confirm_with_slot on
\* that appointment.
C4_ConfirmedOnlyByAssignment ==
    [][\A a \in AppIds :
          (appointments[a].status # "confirmed" /\ appointments'[a].status = "confirmed")
          => (last'.op = "confirm_with_slot" /\ last'.app = a)]_vars

C6_VerifiedNeverDeadlineCancelled ==
    [][last'.op \in DeadlineOps =>
          \A a \in AppIds :
             (appointments[a].payment_status = "verified" /\ appointments[a].status # "cancelled")
             => appointments'[a].status # "cancelled"]_vars

\* C6 witness: the sweep has run over a pending or confirmed appointment with
\* verified payment whose deadline lies in the past.
C6_Witness ==
    \E a \in AppIds :
       /\ last.op = "sweep"
       /\ appointments[a].payment_status = "verified"
       /\ appointments[a].status \in {"pending", "confirmed"}
       /\ appointments[a].payment_deadline # NULL
       /\ appointments[a].payment_deadline < now

\* C7: once payment_status is verified, it stays verified.
C7_VerifiedStaysVerified ==
    [][\A a \in AppIds :
          appointments[a].payment_status = "verified"
          => appointments'[a].payment_status = "verified"]_vars

\* C8: verify_payment on an appointment whose payment_status is not submitted
\* answers InvalidTransition and leaves payment_status, verifier and timestamp
\* unchanged.
C8_VerifyOnlyFromSubmitted ==
    [][\A a \in AppIds :
          ( /\ last'.op = "verify_payment"
            /\ last'.app = a
            /\ appointments[a].payment_status # "submitted" )
          => ( /\ last'.res = "InvalidTransition"
               /\ appointments'[a].payment_status = appointments[a].payment_status
               /\ appointments'[a].payment_confirmed_by = appointments[a].payment_confirmed_by
               /\ appointments'[a].payment_confirmed_at = appointments[a].payment_confirmed_at )]_vars

\* C9: a payment proof submission (with a valid form) succeeds and sets
\* payment_status to submitted exactly when payment_status is pending or failed
\* and the appointment is neither cancelled nor completed; otherwise it answers
\* InvalidTransition and leaves payment_status, method and proof unchanged.
C9_SubmitOnlyFromPendingOrFailed ==
    [][\A a \in AppIds :
          ( /\ last'.op = "submit_payment_proof"
            /\ last'.app = a
            /\ last'.res \notin {"FormInvalid", "ServerError"} )
          => IF /\ appointments[a].payment_status \in {"pending", "failed"}
                /\ appointments[a].status \notin Terminal
             THEN /\ last'.res = "ok"
                  /\ appointments'[a].payment_status = "submitted"
             ELSE /\ last'.res = "InvalidTransition"
                  /\ appointments'[a].payment_status = appointments[a].payment_status
                  /\ appointments'[a].payment_method = appointments[a].payment_method
                  /\ appointments'[a].payment_proof = appointments[a].payment_proof]_vars

\* C10: payment verification (staff verify_payment or the Stripe success
\* callback) leaves the appointment's status and time_slot as they were.
C10_VerificationKeepsStatusAndSlot ==
    [][\A a \in AppIds :
          (last'.op \in {"verify_payment", "stripe_success"} /\ last'.app = a)
          => ( /\ appointments'[a].status = appointments[a].status
               /\ appointments'[a].time_slot = appointments[a].time_slot )]_vars

\* C10 witness: staff has just verified the payment of an appointment that is
\* still pending with no slot.
C10_Witness ==
    \E a \in AppIds :
       /\ last.op = "verify_payment" /\ last.app = a /\ last.res = "ok"
       /\ appointments[a].payment_status = "verified"
       /\ appointments[a].status = "pending"
       /\ appointments[a].time_slot = NULL

CreationOps == {"create_request", "staff_create", "portal_book"}

\* C11: every appointment-creation path (consultation booking, staff
\* create_appointment, portal booking) that creates an appointment creates it
\* with status pending, payment_status pending, payment_deadline = now + 48h
\* and no slot attached.
C11_CreatedPendingWithDeadline ==
    [][(last'.op \in CreationOps /\ Len(appointments') = Len(appointments) + 1)
          => LET apt == appointments'[Len(appointments')]
             IN  /\ apt.status = "pending"
                 /\ apt.payment_status = "pending"
                 /\ apt.payment_deadline = now + PaymentWindowHours
                 /\ apt.time_slot = NULL]_vars

\* C12: is_payment_overdue answers true exactly when payment_status is not
\* verified, payment_deadline is set and now > payment_deadline; for a verified
\* appointment it answers false whatever the deadline.
C12_OverdueIffUnverifiedPastDeadline ==
    \A a \in AppIds :
       (last.op = "is_payment_overdue" /\ last.app = a)
       => (last.res = "true" <=>
              ( /\ appointments[a].payment_status # "verified"
                /\ appointments[a].payment_deadline # NULL
                /\ now > appointments[a].payment_deadline ))

\* C12 witness: is_payment_overdue answered false for a verified appointment
\* whose deadline is two payment windows in the past.
C12_Witness ==
    \E a \in AppIds :
       /\ last.op = "is_payment_overdue" /\ last.app = a /\ last.res = "false"
       /\ appointments[a].payment_status = "verified"
       /\ appointments[a].payment_deadline = 1
       /\ now = 1 + 2 * PaymentWindowHours

\* C13: cancel_if_unpaid is idempotent. On an overdue unpaid appointment that
\* is neither cancelled nor completed the call sets status cancelled, appends
\* one audit note and answers true; the call that follows it immediately
\* answers false and leaves the appointment, its doctor_notes included, as it is.
C13_CancelIfUnpaidIdempotent ==
    [][\A a \in AppIds :
          (last'.op = "cancel_if_unpaid" /\ last'.app = a)
          => IF last.op = "cancel_if_unpaid" /\ last.app = a /\ last.res = "true"
             THEN /\ last'.res = "false"
                  /\ appointments'[a] = appointments[a]
             ELSE (is_payment_overdue(appointments[a], now)
                      /\ appointments[a].status \notin Terminal)
                  => ( /\ last'.res = "true"
                       /\ appointments'[a].status = "cancelled"
                       /\ appointments'[a].doctor_notes = appointments[a].doctor_notes + 1 )]_vars

\* C13 witness: the second of two calls on an overdue unpaid appointment has
\* answered false; the appointment is cancelled and carries one audit note.
C13_Witness ==
    \E a \in AppIds :
       /\ last.op = "cancel_if_unpaid" /\ last.app = a /\ last.res = "false"
       /\ appointments[a].status = "cancelled"
       /\ appointments[a].doctor_notes = 1
       /\ is_payment_overdue(appointments[a], now)

\* C14: the sweep is idempotent. A sweep that follows a sweep immediately (same
\* clock, nothing in between) changes no appointment and returns 0 cancelled
\* and 0 completed.
C14_SweepIdempotent ==
    [][(last.op = "sweep" /\ last'.op = "sweep")
          => ( /\ appointments' = appointments
               /\ last'.unpaid_cancelled = 0
               /\ last'.past_completed = 0 )]_vars

\* C14 witness: a sweep has returned 0 and 0 over a table that holds a row
\* cancelled with its unpaid deadline passed and a completed row whose slot
\* is past.
C14_Witness ==
    /\ last.op = "sweep" /\ last.unpaid_cancelled = 0 /\ last.past_completed = 0
    /\ \E a \in AppIds :
          /\ appointments[a].status = "cancelled"
          /\ OverdueUnpaidAnyStatus(appointments[a], now)
    /\ \E a \in AppIds :
          /\ appointments[a].status = "completed"
          /\ is_past_appointment(appointments[a], now)

\* C15: a sweep that runs after the payment deadline of a pending or confirmed
\* appointment whose payment is not verified leaves that appointment cancelled.
C15_SweepCancelsOverdueUnpaid ==
    [][last'.op = "sweep" =>
          \A a \in AppIds :
             ( /\ appointments[a].status \in {"pending", "confirmed"}
               /\ appointments[a].payment_status # "verified"
               /\ appointments[a].payment_deadline # NULL
               /\ now > appointments[a].payment_deadline )
             => appointments'[a].status = "cancelled"]_vars

\* C15 witness: an appointment booked at hour 1 with deadline 1 + 48h, its
\* proof submitted but not verified, has been cancelled by a sweep at hour 97.
C15_Witness ==
    \E a \in AppIds :
       /\ last.op = "sweep" /\ last.unpaid_cancelled = 1
       /\ appointments[a].status = "cancelled"
       /\ appointments[a].payment_status = "submitted"
       /\ appointments[a].payment_deadline = 1 + PaymentWindowHours
       /\ now = 1 + 2 * PaymentWindowHours

NotifyingOps == {"create_request", "submit_payment_proof", "verify_payment",
                 "reject_payment", "confirm_with_slot", "assign_slot", "cancel",
                 "complete"}

\* C16: no state-changing operation (booking, proof submission, payment
\* verification and rejection, slot assignment, staff cancel and complete)
\* ends with a server error because the notification sink raised; the error
\* stays inside the operation.
C16_NotificationFailureContained ==
    last.op \in NotifyingOps => last.res # "ServerError"

\* C17: when the completion notification raises for some rows during a sweep,
\* the sweep still returns normally, every confirmed appointment whose slot is
\* past is completed (the rows whose notification raised included) and is
\* counted.
C17_SweepSurvivesNotificationFailure ==
    [][last'.op = "sweep" =>
          LET due == {a \in AppIds : PastConfirmed(AfterBulkCancel(appointments, now)[a], now)}
          IN  /\ last'.res = "ok"
              /\ last'.past_completed = Cardinality(due)
              /\ \A a \in due : appointments'[a].status = "completed"]_vars

\* C17 witness: a sweep has completed two appointments; the notification of
\* appointment 1 raised, that of appointment 2 was stored.
C17_Witness ==
    /\ Len(appointments) = 2
    /\ last.op = "sweep" /\ last.res = "ok" /\ last.past_completed = 2
    /\ last.notified = {2}
    /\ \A a \in AppIds : appointments[a].status = "completed"

\* C18: when two sweeps run concurrently, no appointment gets the
\* 'appointment completed' notification from both of them: it is sent once per
\* transition from confirmed to completed, never twice for one appointment.
C18_CompletionNotifiedOnce ==
    \A a \in AppIds : ~(a \in req[1].notified /\ a \in req[2].notified)

\* C19: staff cancel applied to an appointment that is already cancelled or
\* completed leaves its status as it is.
C19_CancelOnlyFromNonTerminal ==
    [][\A a \in AppIds :
          ( /\ last'.op = "cancel"
            /\ last'.app = a
            /\ appointments[a].status \in Terminal )
          => appointments'[a].status = appointments[a].status]_vars

\* C20: an audit log row is immutable. save() on a row that is already stored
\* raises ValueError and leaves the table as it is; whatever the step, the
\* rows already stored stay as they are, only new rows are added.
C20_AuditLogImmutable ==
    [][ /\ last'.op = "audit_save"
              => (last'.res = "ValueError" /\ audit_log' = audit_log)
        /\ \A pk \in 1..Len(audit_log) :
              Len(audit_log') >= pk /\ audit_log'[pk] = audit_log[pk] ]_vars

\* C20 witness: save() on the stored row 1, with other field values, has
\* raised ValueError and row 1 is as log_action wrote it.
C20_Witness ==
    /\ last.op = "audit_save" /\ last.app = 1 /\ last.res = "ValueError"
    /\ Len(audit_log) = MaxLog
    /\ audit_log[1].action = "create" /\ ~audit_log[1].is_suspicious

PaymentEdges == { <<"pending", "submitted">>, <<"submitted", "verified">>,
                  <<"submitted", "failed">>, <<"failed", "submitted">> }

\* C21: every change of an appointment's payment_status, whatever the
\* operation, follows one of the edges pending -> submitted,
\* submitted -> verified, submitted -> failed, failed -> submitted.
C21_PaymentStatusFollowsEdges ==
    [][\A a \in AppIds :
          appointments'[a].payment_status # appointments[a].payment_status
          => <<appointments[a].payment_status, appointments'[a].payment_status>>
                \in PaymentEdges]_vars

\* C22: the sweep agrees with cancel_if_unpaid on every pending or confirmed
\* appointment: where a cancel_if_unpaid call at the same instant would cancel
\* it, the sweep leaves it cancelled with the audit note appended; where the
\* call would not, the cancellation step leaves it untouched.
C22_SweepCancelsAsCancelIfUnpaid ==
    [][last'.op = "sweep" =>
          \A a \in AppIds :
             appointments[a].status \in {"pending", "confirmed"}
             => IF cancel_if_unpaid(appointments[a], now) # appointments[a]
                THEN appointments'[a] = cancel_if_unpaid(appointments[a], now)
                ELSE appointments'[a] = complete_if_past(appointments[a], now)]_vars

\* C23: complete_if_past sets status completed and answers true exactly when
\* the status is confirmed, a slot is attached and now is later than the
\* slot's end plus one hour; otherwise it answers false and changes nothing.
C23_CompleteIfPastExactly ==
    [][\A a \in AppIds :
          (last'.op = "complete_if_past" /\ last'.app = a)
          => IF /\ appointments[a].status = "confirmed"
                /\ appointments[a].time_slot # NULL
                /\ now > slots[appointments[a].time_slot].end_time + GraceHours
             THEN /\ last'.res = "true"
                  /\ appointments' = [appointments EXCEPT ![a].status = "completed"]
             ELSE /\ last'.res = "false"
                  /\ appointments' = appointments]_vars

\* C23 witness: complete_if_past has answered true and completed an
\* appointment two hours after the end of its slot.
C23_Witness ==
    \E a \in AppIds :
       /\ last.op = "complete_if_past" /\ last.app = a /\ last.res = "true"
       /\ appointments[a].status = "completed"
       /\ appointments[a].time_slot # NULL
       /\ now = slots[appointments[a].time_slot].end_time + 2 * GraceHours

\* C24: any two sweep runs started by the middleware are more than 300
\* seconds apart, whatever the order and interleaving of the requests.
C24_SweepsMoreThanIntervalApart ==
    \A w \in ReqIds : \A v \in ReqIds \ {w} :
       (req[w].ran /\ req[v].ran /\ req[w].t >= req[v].t)
       => req[w].t - req[v].t > ThrottleSeconds

\* C25: no step taken while a sweep's completion pass is interleaved with
\* staff cancellations turns a cancelled appointment into a completed one.
C25_CancelledNeverCompleted ==
    [][\A a \in AppIds :
          (a <= Len(appointments') /\ appointments[a].status = "cancelled")
          => appointments'[a].status # "completed"]_vars

\* C26: every appointment whose status is confirmed has its payment verified
\* and a time slot assigned.
C26_ConfirmedIsPaidWithSlot ==
    \A a \in AppIds :
       appointments[a].status = "confirmed"
       => (appointments[a].payment_status = "verified" /\ appointments[a].time_slot # NULL)

\* C27: self-booking leaves at most one pending or confirmed appointment on a
\* slot, also when two booking requests for the slot run concurrently.
C27_AtMostOneActiveBookingPerSlot ==
    \A sid \in SlotIds : current_bookings(sid) <= 1

\* C28: a run of the cancel_unpaid_appointments command with --dry-run, and a
\* run that finds no overdue appointment, leaves every appointment as it was.
C28_DryRunChangesNothing ==
    [][(last'.op = "cancel_unpaid_command" /\ last'.res \in {"dry_run", "none_found"})
          => appointments' = appointments]_vars

\* C28 witness: the command has run with --dry-run over an overdue unpaid
\* appointment, which is still pending or confirmed.
C28_Witness ==
    /\ last.op = "cancel_unpaid_command" /\ last.res = "dry_run"
    /\ \E a \in AppIds : OverdueUnpaid(appointments[a], now)

\* C29: can_join is true exactly when the status is scheduled or in_progress
\* and the current time lies between 10 minutes before and 30 minutes after
\* the scheduled start; the join view lets the request through exactly then.
C29_CanJoinExactlyInWindow ==
    \A c \in ConsIds :
       LET InClaimedWindow ==
             /\ consultations[c].status \in {"scheduled", "in_progress"}
             /\ consultations[c].scheduled - 10 <= now
             /\ now <= consultations[c].scheduled + 30
       IN  /\ (last.op = "can_join" /\ last.app = c)
              => (last.res = "true" <=> InClaimedWindow)
           /\ (last.op = "video_join" /\ last.app = c)
              => (last.res # "NotActive" <=> InClaimedWindow)

====
